---- MODULE Spec2Model ----
(***************************************************************************)
(* Model of duck_summarizer (src/src/main.rs): the MessageStore behind a   *)
(* tokio Mutex, the handle_message and handle_command handlers run as      *)
(* concurrent tasks by the dispatcher, and summarize_conversation.         *)
(*                                                                         *)
(* Option<T> is modelled as a sequence of length at most one: None is <<>> *)
(* and Some(x) is <<x>>.  A String is a sequence of one-character strings. *)
(* A step of a task runs from one .await to the next; add_message, which   *)
(* runs with the lock held, is split into its three statements so that the *)
(* lock, and not the step size, is what makes it atomic.                   *)
(***************************************************************************)
EXTENDS Integers, Sequences, FiniteSets, TLC

\* ------------------------------------------------------------------ bounds
\* Capacity of one buffer.  The source sets MAX_MESSAGES = 1000 (main.rs:21);
\* the model scales it down so that eviction happens within the event budget.
MAX_MESSAGES == 2
\* Number of handler tasks the dispatcher runs concurrently.
NumTasks == 2
\* Number of inbound events (each has a fresh message id).
MaxEvents == 4
\* Number of distinct sub-thread ids of the one chat of the model.
NumThreads == 1

\* The count used by /summarize without an argument (main.rs:281).
DEFAULT_COUNT == 100

None == <<>>
Some(x) == <<x>>

Tasks == 1..NumTasks
NoTask == 0
ChatIds == {1}
ThreadIds == 1..NumThreads
OptThreadIds == {None} \cup {Some(th) : th \in ThreadIds}
Users == {<<"A", "n", "n">>}
Texts == {<<"a", "\n", "b">>}

\* ------------------------------------------------------------- the store

\* Mutant of ChatThreadId: the key ignores the thread.
ChatIdOnly(chat_id, thread_id) == [chat_id |-> chat_id, thread_id |-> <<>>]

\* struct ChatThreadId { chat_id, thread_id }, compared field by field.
ChatThreadId(chat_id, thread_id) == [chat_id |-> chat_id, thread_id |-> thread_id]

Keys == {ChatThreadId(c, th) : c \in ChatIds, th \in OptThreadIds}

\* struct SavedMessage
SavedMessage(message_id, from_user, reply_to_message_id, text) ==
    [message_id |-> message_id, from_user |-> from_user,
     reply_to_message_id |-> reply_to_message_id, text |-> text]

\* MessageStore::new(): an empty map.
NewStore == [k \in {} |-> <<>>]

\* self.chats.entry(key).or_insert_with(|| VecDeque::with_capacity(MAX_MESSAGES))
OrInsertEmpty(chs, key) ==
    IF key \in DOMAIN chs THEN chs
    ELSE [k \in DOMAIN chs \cup {key} |-> IF k = key THEN <<>> ELSE chs[k]]

\* Mutant of EvictIfFull: evicts only above the capacity (> for >=).
EvictIfOverfull(q) == IF Len(q) > MAX_MESSAGES THEN Tail(q) ELSE q

\* Mutant of EvictIfFull: pop_back for pop_front.
EvictNewest(q) == IF Len(q) >= MAX_MESSAGES THEN SubSeq(q, 1, Len(q) - 1) ELSE q

\* if chat_messages.len() >= MAX_MESSAGES { chat_messages.pop_front(); }
EvictIfFull(q) == IF Len(q) >= MAX_MESSAGES THEN Tail(q) ELSE q

\* Mutant of PushBack: push_front.
PushFront(q, message) == <<message>> \o q

\* chat_messages.push_back(message)
PushBack(q, message) == Append(q, message)

\* Iterator adaptors used by get_last_n_messages.
RECURSIVE Rev(_)
Rev(s) == IF s = <<>> THEN <<>> ELSE Append(Rev(Tail(s)), Head(s))

Take(s, n) == SubSeq(s, 1, IF n < Len(s) THEN n ELSE Len(s))

Min(a, b) == IF a < b THEN a ELSE b

\* Mutant of GetLastNMessages: the second rev() is missing.
GetLastNReversed(chs, chat_id, thread_id, n) ==
    LET chat_thread_id == [chat_id |-> chat_id, thread_id |-> thread_id] IN
    IF chat_thread_id \in DOMAIN chs
    THEN LET messages == chs[chat_thread_id]
             count == Min(n, Len(messages))
         IN  Take(Rev(messages), count)
    ELSE <<>>

\* MessageStore::get_last_n_messages
GetLastNMessages(chs, chat_id, thread_id, n) ==
    LET chat_thread_id == ChatThreadId(chat_id, thread_id) IN
    IF chat_thread_id \in DOMAIN chs
    THEN LET messages == chs[chat_thread_id]
             count == Min(n, Len(messages))
         IN  Rev(Take(Rev(messages), count))
    ELSE <<>>

\* ----------------------------------------------- /summarize count parsing

Digits == {"0", "1", "2", "3", "4", "5", "6", "7", "8", "9"}

DigitValue(c) ==
    CASE c = "0" -> 0 [] c = "1" -> 1 [] c = "2" -> 2 [] c = "3" -> 3
      [] c = "4" -> 4 [] c = "5" -> 5 [] c = "6" -> 6 [] c = "7" -> 7
      [] c = "8" -> 8 [] c = "9" -> 9

IsWhitespace(c) == c \in {" ", "\t", "\n"}

\* str::trim: strips leading and trailing whitespace.
RECURSIVE TrimStart(_)
TrimStart(s) ==
    IF s # <<>> /\ IsWhitespace(Head(s)) THEN TrimStart(Tail(s)) ELSE s

Trim(s) == Rev(TrimStart(Rev(TrimStart(s))))

\* The digit loop of usize::from_str: accumulates base 10, fails on the first
\* character that is no digit.  Err is <<>>, Ok(n) is <<n>>.  The strings of the
\* model are far too short to overflow a usize.
RECURSIVE ParseDigits(_, _)
ParseDigits(s, acc) ==
    IF s = <<>> THEN Some(acc)
    ELSE IF Head(s) \in Digits
         THEN ParseDigits(Tail(s), acc * 10 + DigitValue(Head(s)))
         ELSE None

\* usize::from_str: the empty string and a lone sign are errors, one leading
\* "+" is accepted, "-" is not a digit of an unsigned type.
UsizeFromStr(s) ==
    IF s = <<>> THEN None
    ELSE IF Len(s) = 1 /\ Head(s) \in {"+", "-"} THEN None
    ELSE IF Head(s) = "+" THEN ParseDigits(Tail(s), 0)
    ELSE ParseDigits(s, 0)

\* Mutant of ParseCount: the n > 0 test is missing.
ParseCountNoLowerBound(count_str) ==
    LET trimmed == Trim(count_str) IN
    IF trimmed = <<>> THEN Some(DEFAULT_COUNT)
    ELSE LET r == UsizeFromStr(trimmed) IN
         IF r # None /\ r[1] <= MAX_MESSAGES THEN r ELSE None

\* The count of handle_command's Summarize arm: Some(n), or None when the
\* argument is rejected.
ParseCount(count_str) ==
    LET trimmed == Trim(count_str) IN
    IF trimmed = <<>> THEN Some(DEFAULT_COUNT)
    ELSE LET r == UsizeFromStr(trimmed) IN
         IF r # None /\ r[1] > 0 /\ r[1] <= MAX_MESSAGES THEN r ELSE None

\* ------------------------------------------------------------------ state

VARIABLES
    chats,      \* MessageStore.chats: ChatThreadId -> VecDeque<SavedMessage>
    lock,       \* the task holding the tokio Mutex of the store, or NoTask
    task,       \* per handler task: its position and its locals
    next_id,    \* the message id of the next inbound event
    hist        \* history: per key, every message pushed so far, in push order

vars == <<chats, lock, task, next_id, hist>>

IdleTask ==
    [pc |-> "idle", kind |-> "none", chat_id |-> 0, thread_id |-> None,
     msg |-> None, saved_message |-> None, count_str |-> <<>>, count |-> 0,
     messages |-> <<>>, conversation_text |-> <<>>, http_calls |-> 0,
     out |-> "", stats |-> <<>>, pre |-> <<>>, snap_at |-> 0]

\* The positions at which a task is suspended in an .await.
AwaitPoints ==
    {"hm_lock", "sum_reject_send", "sum_lock", "sum_empty_send", "sum_notice_send",
     "sum_http", "sum_error_text", "sum_json", "sum_edit_ok", "sum_edit_fail",
     "mem_lock", "mem_send", "cmd_send"}

\* Mutant of LockFree: lock().await does not wait for the holder.
LockNeverWaits == TRUE

\* message_store.lock().await completes only when no task holds the guard.
LockFree == lock = NoTask

\* Dropping the MutexGuard at the end of its scope.
Release(t) == IF lock = t THEN NoTask ELSE lock

\* The buffer a key maps to, <<>> when the key is absent.
BufferOf(chs, chat_id, thread_id) ==
    IF ChatThreadId(chat_id, thread_id) \in DOMAIN chs
    THEN chs[ChatThreadId(chat_id, thread_id)] ELSE <<>>

Init ==
    /\ chats = NewStore
    /\ lock = NoTask
    /\ task = [t \in Tasks |-> IdleTask]
    /\ next_id = 1
    /\ hist = [k \in Keys |-> <<>>]

\* The inbound updates: a chat, an optional thread, an optional sender, an
\* optional replied-to message (here the update just before this one), and a
\* body that is no text, a plain text or a bot command with its argument.
CountStrs ==
    {<<>>, <<"a", "b", "c">>, <<"0">>, <<" ", "2", "\t">>,
     <<"3">>, <<"4">>, <<"+", "1">>, <<"-", "1">>, <<"1", "0", "0", "1">>}
Commands == {"start", "help", "summarize", "memory", "privacy"}

Updates ==
    [chat_id : ChatIds, thread_id : OptThreadIds,
     from : {None} \cup {Some(u) : u \in Users},
     reply_to : {None} \cup {Some(r) : r \in (next_id - 1)..(next_id - 1) \ {0}},
     type : {"text"}, text : Texts, cmd : {""}, arg : {<<>>}]
    \cup
    [chat_id : ChatIds, thread_id : OptThreadIds,
     from : {None} \cup {Some(u) : u \in Users}, reply_to : {None},
     type : {"none"}, text : {<<>>}, cmd : {""}, arg : {<<>>}]
    \cup
    [chat_id : ChatIds, thread_id : OptThreadIds,
     from : {None} \cup {Some(u) : u \in Users},
     reply_to : {None}, type : {"command"}, text : {<<>>},
     cmd : Commands \ {"summarize"}, arg : {<<>>}]
    \cup
    [chat_id : ChatIds, thread_id : OptThreadIds,
     from : {None} \cup {Some(u) : u \in Users},
     reply_to : {None}, type : {"command"}, text : {<<>>},
     cmd : {"summarize"}, arg : CountStrs]

\* Mutant of IsCommand: the dispatcher tree has no command branch.
IsCommandNever(msg) == FALSE

\* The dispatcher tree of main: the command branch takes the updates that
\* parse as a Command, the endpoint after it takes every other message.
IsCommand(msg) == msg.type = "command"

\* A task slot of the dispatcher takes the next update.
Inbound(t) ==
    /\ task[t].pc = "idle"
    /\ next_id <= MaxEvents

Started(msg, kind, pc) ==
    [IdleTask EXCEPT !.pc = pc, !.kind = kind, !.chat_id = msg.chat_id,
                     !.thread_id = msg.thread_id]

\* ---------------------------------------------------------- handle_message

\* The Message handed to a handler: the update with its message id.
Received(msg, id) ==
    [id |-> id, chat_id |-> msg.chat_id, thread_id |-> msg.thread_id,
     from |-> msg.from, reply_to |-> msg.reply_to, type |-> msg.type,
     text |-> msg.text]

\* The last endpoint of the dispatcher tree: an update that is no command
\* starts handle_message in a task.
DispatchMessage(t) ==
    /\ Inbound(t)
    /\ \E msg \in Updates :
          /\ ~IsCommand(msg)
          /\ task' = [task EXCEPT ![t] =
                        [Started(msg, "message", "hm_start")
                           EXCEPT !.msg = Some(Received(msg, next_id))]]
    /\ next_id' = next_id + 1
    /\ UNCHANGED <<chats, lock, hist>>

\* msg.text() is Some: the update is a text message.  A command is a text
\* message too, one whose text parses as a Command.
HasText(msg) == msg.type \in {"text", "command"}

\* Mutant of ShouldStore: the early return for a missing sender is missing.
ShouldStoreNoSenderCheck(msg) == HasText(msg)

\* handle_message goes on to the store when msg.text() is Some (line 187) and
\* msg.from is Some (lines 200-206).
ShouldStore(msg) == HasText(msg) /\ msg.from # None

\* msg.text() is Some and msg.from is Some: the SavedMessage is built, with
\* from_user the display name mapped from msg.from, and the task suspends in
\* message_store.lock().await.
HandleMessage(t) ==
    /\ task[t].pc = "hm_start"
    /\ LET msg == task[t].msg[1] IN
       /\ ShouldStore(msg)
       /\ task' = [task EXCEPT
                     ![t].pc = "hm_lock",
                     ![t].saved_message =
                        Some(SavedMessage(msg.id, msg.from, msg.reply_to, msg.text))]
    /\ UNCHANGED <<chats, lock, next_id, hist>>

\* An update without text, or a text without a sender: Ok(()) at once.
HandleMessageSkip(t) ==
    /\ task[t].pc = "hm_start"
    /\ ~ShouldStore(task[t].msg[1])
    /\ task' = [task EXCEPT ![t] = IdleTask]
    /\ UNCHANGED <<chats, lock, next_id, hist>>

\* let mut store = message_store.lock().await;
HmLock(t) ==
    /\ task[t].pc = "hm_lock"
    /\ LockFree
    /\ lock' = t
    /\ task' = [task EXCEPT ![t].pc = "hm_entry",
                            ![t].pre = BufferOf(chats, task[t].chat_id, task[t].thread_id)]
    /\ UNCHANGED <<chats, next_id, hist>>

\* add_message: entry(..).or_insert_with(..)
HmEntry(t) ==
    /\ task[t].pc = "hm_entry"
    /\ chats' = OrInsertEmpty(chats, ChatThreadId(task[t].chat_id, task[t].thread_id))
    /\ task' = [task EXCEPT ![t].pc = "hm_evict"]
    /\ UNCHANGED <<lock, next_id, hist>>

\* add_message: pop_front when the buffer is full
HmEvict(t) ==
    /\ task[t].pc = "hm_evict"
    /\ LET key == ChatThreadId(task[t].chat_id, task[t].thread_id) IN
       chats' = [chats EXCEPT ![key] = EvictIfFull(chats[key])]
    /\ task' = [task EXCEPT ![t].pc = "hm_push"]
    /\ UNCHANGED <<lock, next_id, hist>>

\* add_message: push_back; then the guard goes out of scope and Ok(()) returns.
HmPush(t) ==
    /\ task[t].pc = "hm_push"
    /\ LET key == ChatThreadId(task[t].chat_id, task[t].thread_id) IN
       /\ chats' = [chats EXCEPT ![key] = PushBack(chats[key], task[t].saved_message[1])]
       /\ hist' = [hist EXCEPT ![key] = Append(hist[key], task[t].saved_message[1])]
    /\ lock' = Release(t)
    /\ task' = [task EXCEPT ![t] = IdleTask]
    /\ UNCHANGED next_id

\* ---------------------------------------------------------- handle_command

\* The texts handle_command sends.
InvalidCountText == "Please provide a valid number between 1 and MAX_MESSAGES"
NoMessagesText == "No messages to summarize."
SummarizingText == "Summarizing N messages..."
SummaryText == "summary"
FailedText == "Failed to summarize the conversation."

\* Command::Start, Command::Help, Command::Privacy: one send_message.
OtherCommand(t) ==
    /\ Inbound(t)
    /\ \E msg \in Updates :
          /\ IsCommand(msg)
          /\ msg.cmd \in {"start", "help", "privacy"}
          /\ task' = [task EXCEPT ![t] =
                        [Started(msg, "command", "cmd_send") EXCEPT !.out = msg.cmd]]
    /\ next_id' = next_id + 1
    /\ UNCHANGED <<chats, lock, hist>>

\* send_message(..).await? of Start, Help and Privacy: Ok or Err, then return.
CmdSend(t) ==
    /\ task[t].pc = "cmd_send"
    /\ task' = [task EXCEPT ![t] = IdleTask]
    /\ UNCHANGED <<chats, lock, next_id, hist>>

\* Command::Summarize with a count that is rejected: the notice is sent.
SummarizeInvalid(t) ==
    /\ Inbound(t)
    /\ \E msg \in Updates :
          /\ IsCommand(msg)
          /\ msg.cmd = "summarize"
          /\ ParseCount(msg.arg) = None
          /\ task' = [task EXCEPT ![t] =
                        [Started(msg, "summarize", "sum_reject_send")
                           EXCEPT !.count_str = msg.arg, !.out = InvalidCountText]]
    /\ next_id' = next_id + 1
    /\ UNCHANGED <<chats, lock, hist>>

\* send_message(..).await?; return Ok(()) of the rejected count.
SumRejectSend(t) ==
    /\ task[t].pc = "sum_reject_send"
    /\ task' = [task EXCEPT ![t] = IdleTask]
    /\ UNCHANGED <<chats, lock, next_id, hist>>

\* Command::Summarize with an accepted count: the task suspends in
\* message_store.lock().await.
SummarizeValid(t) ==
    /\ Inbound(t)
    /\ \E msg \in Updates :
          /\ IsCommand(msg)
          /\ msg.cmd = "summarize"
          /\ ParseCount(msg.arg) # None
          /\ task' = [task EXCEPT ![t] =
                        [Started(msg, "summarize", "sum_lock")
                           EXCEPT !.count_str = msg.arg,
                                  !.count = ParseCount(msg.arg)[1]]]
    /\ next_id' = next_id + 1
    /\ UNCHANGED <<chats, lock, hist>>

\* Mutant of SumLock: the messages.is_empty() test is missing.
SumLockNoEmptyCheck(t) ==
    /\ task[t].pc = "sum_lock"
    /\ lock = NoTask
    /\ lock' = t
    /\ task' = [task EXCEPT
                  ![t].messages = GetLastNMessages(chats, task[t].chat_id,
                                                   task[t].thread_id, task[t].count),
                  ![t].snap_at =
                     Len(hist[ChatThreadId(task[t].chat_id, task[t].thread_id)]),
                  ![t].pc = "sum_notice_send",
                  ![t].out = SummarizingText]
    /\ UNCHANGED <<chats, next_id, hist>>

\* Mutant of SumLock: the read goes through entry(..).or_default() and so
\* creates the buffer of a key it does not find.
SumLockCreatesKey(t) ==
    /\ task[t].pc = "sum_lock"
    /\ lock = NoTask
    /\ lock' = t
    /\ chats' = OrInsertEmpty(chats, ChatThreadId(task[t].chat_id, task[t].thread_id))
    /\ LET messages == GetLastNMessages(chats, task[t].chat_id, task[t].thread_id,
                                        task[t].count)
       IN task' = [task EXCEPT
                     ![t].messages = messages,
                     ![t].snap_at =
                        Len(hist[ChatThreadId(task[t].chat_id, task[t].thread_id)]),
                     ![t].pc = IF messages = <<>> THEN "sum_empty_send"
                               ELSE "sum_notice_send",
                     ![t].out = IF messages = <<>> THEN NoMessagesText
                                ELSE SummarizingText]
    /\ UNCHANGED <<next_id, hist>>

\* let store = message_store.lock().await;
\* let messages = store.get_last_n_messages(..);
\* then the first send_message is started.  The guard `store` lives until the
\* end of the match arm.
SumLock(t) ==
    /\ task[t].pc = "sum_lock"
    /\ LockFree
    /\ lock' = t
    /\ LET messages == GetLastNMessages(chats, task[t].chat_id, task[t].thread_id,
                                        task[t].count)
       IN task' = [task EXCEPT
                     ![t].messages = messages,
                     ![t].snap_at =
                        Len(hist[ChatThreadId(task[t].chat_id, task[t].thread_id)]),
                     ![t].pc = IF messages = <<>> THEN "sum_empty_send"
                               ELSE "sum_notice_send",
                     ![t].out = IF messages = <<>> THEN NoMessagesText
                                ELSE SummarizingText]
    /\ UNCHANGED <<chats, next_id, hist>>

\* send_message("No messages to summarize.").await?; return Ok(())
SumEmptySend(t) ==
    /\ task[t].pc = "sum_empty_send"
    /\ lock' = Release(t)
    /\ task' = [task EXCEPT ![t] = IdleTask]
    /\ UNCHANGED <<chats, next_id, hist>>

\* send_message("Summarizing ..").await? fails: the error is returned.
SumNoticeSendErr(t) ==
    /\ task[t].pc = "sum_notice_send"
    /\ lock' = Release(t)
    /\ task' = [task EXCEPT ![t] = IdleTask]
    /\ UNCHANGED <<chats, next_id, hist>>

\* ------------------------------------------- summarize_conversation: render

\* The literals of the two format strings and the two fallbacks, as strings
\* of characters.
Unknown == <<"U", "n", "k", "n", "o", "w", "n">>
Someone == <<"s", "o", "m", "e", "o", "n", "e">>
ReplyingTo == <<" ", "(", "r", "e", "p", "l", "y", "i", "n", "g", " ", "t", "o", " ">>
ReplyClose == <<")", ":", " ">>
Colon == <<":", " ">>
Newline == <<"\n">>

\* Option::unwrap_or
UnwrapOr(opt, default) == IF opt = None THEN default ELSE opt[1]

\* message.text.replace('\n', "\\n")
RECURSIVE ReplaceNewlines(_)
ReplaceNewlines(text) ==
    IF text = <<>> THEN <<>>
    ELSE (IF Head(text) = "\n" THEN <<"\\", "n">> ELSE <<Head(text)>>)
         \o ReplaceNewlines(Tail(text))

\* messages.iter().find(|m| m.message_id == reply_id)
Find(messages, reply_id) ==
    LET hits == {i \in 1..Len(messages) : messages[i].message_id = reply_id}
    IN IF hits = {} THEN None
       ELSE Some(messages[CHOOSE i \in hits : \A j \in hits : i <= j])

\* Mutant of RepliedTo: the target is looked up in the buffers of the store.
RepliedToLive(messages, reply_id) ==
    LET hits == {m \in UNION {{chats[k][i] : i \in 1..Len(chats[k])} : k \in DOMAIN chats} :
                    m.message_id = reply_id}
    IN IF hits = {} THEN Someone
       ELSE UnwrapOr((CHOOSE m \in hits : TRUE).from_user, Someone)

\* .find(..).and_then(|m| m.from_user.as_ref()).map(|u| u.as_str())
\* .unwrap_or("someone")
RepliedTo(messages, reply_id) ==
    LET found == Find(messages, reply_id)
    IN IF found = None THEN Someone
       ELSE UnwrapOr(found[1].from_user, Someone)

\* One iteration of the loop: the string pushed for `message`.
RenderLine(messages, message) ==
    LET username == UnwrapOr(message.from_user, Unknown)
        text == ReplaceNewlines(message.text)
    IN IF message.reply_to_message_id # None
       THEN username \o ReplyingTo
            \o RepliedTo(messages, message.reply_to_message_id[1])
            \o ReplyClose \o text \o Newline
       ELSE username \o Colon \o text \o Newline

\* The loop over the first n messages of the slice.
RECURSIVE RenderUpTo(_, _)
RenderUpTo(messages, n) ==
    IF n = 0 THEN <<>>
    ELSE RenderUpTo(messages, n - 1) \o RenderLine(messages, messages[n])

\* conversation_text after the loop.
Render(messages) == RenderUpTo(messages, Len(messages))

\* send_message("Summarizing ..").await? succeeds and summarize_conversation
\* is entered; env::var("GROQ_API_KEY") is Err: it returns Err at once and the
\* failure edit is started.
SumCallNoKey(t) ==
    /\ task[t].pc = "sum_notice_send"
    /\ task' = [task EXCEPT ![t].pc = "sum_edit_fail", ![t].out = FailedText,
                             ![t].conversation_text = <<>>]
    /\ UNCHANGED <<chats, lock, next_id, hist>>

\* send_message("Summarizing ..").await? succeeds and summarize_conversation
\* is entered; the key is set: the transcript is rendered and the request is
\* sent with client.post(..).send().await.
SumCallHttp(t) ==
    /\ task[t].pc = "sum_notice_send"
    /\ task' = [task EXCEPT
                  ![t].pc = "sum_http",
                  ![t].out = "",
                  ![t].conversation_text = Render(task[t].messages),
                  ![t].http_calls = task[t].http_calls + 1]
    /\ UNCHANGED <<chats, lock, next_id, hist>>

\* Mutant of HttpTransportError: the request is sent again.
HttpTransportRetry(t) ==
    /\ task[t].pc = "sum_http"
    /\ task[t].http_calls < 2
    /\ task' = [task EXCEPT ![t].http_calls = task[t].http_calls + 1]
    /\ UNCHANGED <<chats, lock, next_id, hist>>

\* client.post(..).send().await returns Err: a transport error.
HttpTransportError(t) ==
    /\ task[t].pc = "sum_http"
    /\ task' = [task EXCEPT ![t].pc = "sum_edit_fail", ![t].out = FailedText,
                             ![t].conversation_text = <<>>]
    /\ UNCHANGED <<chats, lock, next_id, hist>>

\* The response has a non-success status: resp.text().await is started.
HttpErrorStatus(t) ==
    /\ task[t].pc = "sum_http"
    /\ task' = [task EXCEPT ![t].pc = "sum_error_text"]
    /\ UNCHANGED <<chats, lock, next_id, hist>>

\* resp.text().await ends (with the body or not): Err("API error ..").
HttpErrorText(t) ==
    /\ task[t].pc = "sum_error_text"
    /\ task' = [task EXCEPT ![t].pc = "sum_edit_fail", ![t].out = FailedText,
                             ![t].conversation_text = <<>>]
    /\ UNCHANGED <<chats, lock, next_id, hist>>

\* The response has a success status: response.json().await is started.
HttpSuccessStatus(t) ==
    /\ task[t].pc = "sum_http"
    /\ task' = [task EXCEPT ![t].pc = "sum_json"]
    /\ UNCHANGED <<chats, lock, next_id, hist>>

\* The body parses and has a choice: Ok(summary).
JsonOk(t) ==
    /\ task[t].pc = "sum_json"
    /\ task' = [task EXCEPT ![t].pc = "sum_edit_ok", ![t].out = SummaryText,
                             ![t].conversation_text = <<>>]
    /\ UNCHANGED <<chats, lock, next_id, hist>>

\* The body does not parse, or parses with no choices: Err.
JsonErr(t) ==
    /\ task[t].pc = "sum_json"
    /\ task' = [task EXCEPT ![t].pc = "sum_edit_fail", ![t].out = FailedText,
                             ![t].conversation_text = <<>>]
    /\ UNCHANGED <<chats, lock, next_id, hist>>

\* bot.edit_message_text(..).await? ends (Ok or Err); the arm ends and the
\* guard is dropped.
SumEdit(t) ==
    /\ task[t].pc \in {"sum_edit_ok", "sum_edit_fail"}
    /\ lock' = Release(t)
    /\ task' = [task EXCEPT ![t] = IdleTask]
    /\ UNCHANGED <<chats, next_id, hist>>

\* Mutant of SumLen: every buffer counts as one message.
SumLenCountsBuffers(chs, ks) == Cardinality(ks)

\* store.chats.values().map(|v| v.len()).sum()
RECURSIVE SumLen(_, _)
SumLen(chs, ks) ==
    IF ks = {} THEN 0
    ELSE LET k == CHOOSE x \in ks : TRUE IN Len(chs[k]) + SumLen(chs, ks \ {k})

\* Command::Memory
MemoryCommand(t) ==
    /\ Inbound(t)
    /\ \E msg \in Updates :
          /\ IsCommand(msg)
          /\ msg.cmd = "memory"
          /\ task' = [task EXCEPT ![t] = Started(msg, "memory", "mem_lock")]
    /\ next_id' = next_id + 1
    /\ UNCHANGED <<chats, lock, hist>>

\* Mutant of MemLock: the lookup of the current key inserts an empty buffer.
MemLockCreatesKey(t) ==
    /\ task[t].pc = "mem_lock"
    /\ LockFree
    /\ lock' = t
    /\ chats' = OrInsertEmpty(chats, ChatThreadId(task[t].chat_id, task[t].thread_id))
    /\ task' = [task EXCEPT
                  ![t].pc = "mem_send",
                  ![t].stats =
                     [total_chats |-> Cardinality(DOMAIN chats'),
                      total_messages |-> SumLen(chats', DOMAIN chats'),
                      current_chat_messages |->
                         Len(BufferOf(chats', task[t].chat_id, task[t].thread_id))]]
    /\ UNCHANGED <<next_id, hist>>

\* let store = message_store.lock().await; the three counts are read and
\* send_message is started with the guard alive.
MemLock(t) ==
    /\ task[t].pc = "mem_lock"
    /\ LockFree
    /\ lock' = t
    /\ task' = [task EXCEPT
                  ![t].pc = "mem_send",
                  ![t].stats =
                     [total_chats |-> Cardinality(DOMAIN chats),
                      total_messages |-> SumLen(chats, DOMAIN chats),
                      current_chat_messages |->
                         Len(BufferOf(chats, task[t].chat_id, task[t].thread_id))]]
    /\ UNCHANGED <<chats, next_id, hist>>

\* send_message(..).await? ends; the arm ends and the guard is dropped.
MemSend(t) ==
    /\ task[t].pc = "mem_send"
    /\ lock' = Release(t)
    /\ task' = [task EXCEPT ![t] = IdleTask]
    /\ UNCHANGED <<chats, next_id, hist>>

\* The runtime shuts down (ctrl-c): a task suspended in an .await is dropped
\* there, and its locals with it, the guard included.
Cancel(t) ==
    /\ task[t].pc \in AwaitPoints
    /\ lock' = Release(t)
    /\ task' = [task EXCEPT ![t] = [IdleTask EXCEPT !.pc = "cancelled",
                                                    !.kind = task[t].kind]]
    /\ UNCHANGED <<chats, next_id, hist>>

Next ==
    \E t \in Tasks :
        \/ DispatchMessage(t)
        \/ HandleMessage(t)
        \/ HandleMessageSkip(t)
        \/ HmLock(t)
        \/ HmEntry(t)
        \/ HmEvict(t)
        \/ HmPush(t)
        \/ OtherCommand(t)
        \/ CmdSend(t)
        \/ SummarizeInvalid(t)
        \/ SumRejectSend(t)
        \/ SummarizeValid(t)
        \/ SumLock(t)
        \/ SumEmptySend(t)
        \/ SumNoticeSendErr(t)
        \/ SumCallNoKey(t)
        \/ SumCallHttp(t)
        \/ HttpTransportError(t)
        \/ HttpErrorStatus(t)
        \/ HttpErrorText(t)
        \/ HttpSuccessStatus(t)
        \/ JsonOk(t)
        \/ JsonErr(t)
        \/ SumEdit(t)
        \/ MemoryCommand(t)
        \/ MemLock(t)
        \/ MemSend(t)
        \/ Cancel(t)

Spec == Init /\ [][Next]_vars

\* The steps of task t that the runtime and the chat transport complete on
\* their own: every step but the arrival of a new update, the shutdown, and
\* the answers of the summarization endpoint, on which the reqwest client of
\* summarize_conversation (Client::new(), no timeout) waits without bound.
Progress(t) ==
    \/ HandleMessage(t) \/ HandleMessageSkip(t)
    \/ HmLock(t) \/ HmEntry(t) \/ HmEvict(t) \/ HmPush(t)
    \/ CmdSend(t) \/ SumRejectSend(t) \/ SumLock(t) \/ SumEmptySend(t)
    \/ SumCallNoKey(t) \/ SumCallHttp(t) \/ SumEdit(t)
    \/ MemLock(t) \/ MemSend(t)

FairSpec == Spec /\ \A t \in Tasks : WF_vars(Progress(t))

\* ------------------------------------------- summarize_conversation alone

\* The longest slice handed to summarize_conversation.
MaxSnapshot == 2

\* Display names: first_name [+ " " + last_name] is any String.
RenderUsers == Users \cup {<<"B", "\n", "o">>}

RenderTexts == Texts \cup {<<"h">>}

\* The i-th message of a slice: its id is i + 1, it may have no from_user,
\* and it may reply to any earlier id; id 1 is the id of no message.
SnapshotMessages(i) ==
    {SavedMessage(i + 1, f, r, x) :
        f \in {None} \cup {Some(u) : u \in RenderUsers},
        r \in {None} \cup {Some(j) : j \in 1..i},
        x \in RenderTexts}

\* messages: &[SavedMessage]
Snapshots ==
    UNION {{s \in [1..n -> UNION {SnapshotMessages(i) : i \in 1..n}] :
               \A i \in 1..n : s[i] \in SnapshotMessages(i)} : n \in 0..MaxSnapshot}

\* handle_command is about to call summarize_conversation(&messages).
RenderInit ==
    /\ chats = NewStore
    /\ lock = 1
    /\ \E messages \in Snapshots :
          task = [t \in Tasks |->
                    IF t = 1
                    THEN [IdleTask EXCEPT !.pc = "sum_notice_send",
                                          !.kind = "summarize",
                                          !.chat_id = 1,
                                          !.count = Len(messages),
                                          !.messages = messages,
                                          !.out = SummarizingText]
                    ELSE IdleTask]
    /\ next_id = MaxEvents + 1
    /\ hist = [k \in Keys |-> <<>>]

RenderNext ==
    \E t \in Tasks :
        \/ SumCallNoKey(t)
        \/ SumCallHttp(t)
        \/ HttpTransportError(t)
        \/ HttpErrorStatus(t)
        \/ HttpErrorText(t)
        \/ HttpSuccessStatus(t)
        \/ JsonOk(t)
        \/ JsonErr(t)
        \/ SumEdit(t)

RenderSpec == RenderInit /\ [][RenderNext]_vars

\* --------------------------------------------------------------- claims

KeyOf(t) == ChatThreadId(task[t].chat_id, task[t].thread_id)

\* The last min(c, Len(s)) elements of s, in order.
LastK(s, c) == SubSeq(s, Len(s) - Min(c, Len(s)) + 1, Len(s))

Range(s) == {s[i] : i \in 1..Len(s)}

\* The positions in which a summarize request is inside summarize_conversation.
InSummarizeConversation == {"sum_http", "sum_error_text", "sum_json"}

\* The positions of a summarize request after its snapshot was taken.
AfterSnapshot ==
    {"sum_empty_send", "sum_notice_send", "sum_http", "sum_error_text", "sum_json",
     "sum_edit_ok", "sum_edit_fail"}

\* An add_message on key k has popped and not yet pushed.
MidAdd(k) == \E t \in Tasks : task[t].pc = "hm_push" /\ KeyOf(t) = k

\* C1: a task awaiting the summarization call (inside summarize_conversation)
\* never holds the store lock.
C1_NoLockDuringSummarization ==
    \A t \in Tasks : task[t].pc \in InSummarizeConversation => lock # t

\* C2: every buffer holds at most MAX_MESSAGES messages in every state, and an
\* add_message that found the buffer full leaves it with the oldest message
\* gone, the new one last and the length still MAX_MESSAGES.
C2_LenBound == \A k \in DOMAIN chats : Len(chats[k]) <= MAX_MESSAGES

C2_DiscardOneAdmitOne ==
    \A t \in Tasks :
        (task[t].pc = "hm_push" /\ task'[t].pc = "idle") =>
            LET pre == task[t].pre
                m == task[t].saved_message[1]
                after == chats'[KeyOf(t)]
            IN  IF Len(pre) = MAX_MESSAGES
                THEN /\ after = Append(Tail(pre), m)
                     /\ Len(after) = MAX_MESSAGES
                ELSE after = Append(pre, m)

\* C2, both parts: the length bound in every state and discard-one-admit-one
\* on every add_message that ends.
C2_BoundedFifo == []C2_LenBound /\ [][C2_DiscardOneAdmitOne]_vars

\* C2 witness: a full buffer has taken one more message.
C2_Witness ==
    \E k \in DOMAIN chats :
        /\ Len(hist[k]) > MAX_MESSAGES
        /\ Len(chats[k]) = MAX_MESSAGES
        /\ ~MidAdd(k)

\* C3: whenever no add_message on a key is between its pop and its push, the
\* whole-buffer read of the key is exactly the last min(k, MAX_MESSAGES) of the
\* k messages appended to it, in arrival order, and no read of any length
\* returns a message that MAX_MESSAGES or more later appends have followed.
C3_LastAppended ==
    \A k \in Keys :
        ~MidAdd(k) =>
            /\ GetLastNMessages(chats, k.chat_id, k.thread_id,
                                Len(BufferOf(chats, k.chat_id, k.thread_id)))
                 = LastK(hist[k], MAX_MESSAGES)
            /\ \A n \in 0..(MAX_MESSAGES + 1) :
                 \A i \in 1..(Len(hist[k]) - MAX_MESSAGES) :
                    hist[k][i] \notin
                       Range(GetLastNMessages(chats, k.chat_id, k.thread_id, n))

\* C3 witness: more than MAX_MESSAGES appends to a key, then a summarize
\* request whose window is shorter than the buffer.
C3_Witness ==
    \E t \in Tasks :
        /\ task[t].pc = "sum_notice_send"
        /\ Len(hist[KeyOf(t)]) > MAX_MESSAGES
        /\ task[t].count < MAX_MESSAGES
        /\ task[t].messages = LastK(hist[KeyOf(t)], task[t].count)

\* C4: get_last_n_messages(key, n) is the newest min(n, len) messages of the
\* key's buffer in buffer order: the whole buffer for n >= len, nothing for
\* n = 0, nothing for a key that was never written, and such a key stays
\* absent from the map after it was read.
C4_TailQuery ==
    /\ \A k \in Keys : \A n \in (0..(MAX_MESSAGES + 1)) \cup {DEFAULT_COUNT} :
          LET buf == BufferOf(chats, k.chat_id, k.thread_id)
              got == GetLastNMessages(chats, k.chat_id, k.thread_id, n)
          IN  /\ Len(got) = Min(n, Len(buf))
              /\ \A i \in 1..Len(got) : got[i] = buf[Len(buf) - Len(got) + i]
              /\ n >= Len(buf) => got = buf
              /\ n = 0 => got = <<>>
              /\ k \notin DOMAIN chats => got = <<>>
    /\ \A t \in Tasks :
          (task[t].pc \in AfterSnapshot /\ lock = t) =>
              /\ task[t].messages =
                    LastK(BufferOf(chats, task[t].chat_id, task[t].thread_id),
                          task[t].count)
              /\ hist[KeyOf(t)] = <<>> => KeyOf(t) \notin DOMAIN chats

\* C4 witness: a key that was never written has been read, and another key
\* holds a full buffer.
C4_Witness ==
    \E t \in Tasks : \E k \in DOMAIN chats :
        /\ task[t].pc = "sum_empty_send"
        /\ hist[KeyOf(t)] = <<>>
        /\ KeyOf(t) \notin DOMAIN chats
        /\ Len(chats[k]) = MAX_MESSAGES

\* C5: a step of an add_message on one (chat, thread) leaves the buffer and
\* the presence of every other (chat, thread) as they were; and two keys of a
\* chat are equal only when their threads are equal, None being no thread id.
C5_KeysDistinct ==
    \A c \in ChatIds :
        \A th1, th2 \in {None} \cup {Some(x) : x \in 0..(NumThreads + 1)} :
            (ChatThreadId(c, th1) = ChatThreadId(c, th2)) <=> (th1 = th2)

C5_FrameOtherKeys ==
    \A c \in ChatIds, th \in OptThreadIds :
        (~ \E t \in Tasks : /\ lock = t
                            /\ task[t].pc \in {"hm_entry", "hm_evict", "hm_push"}
                            /\ task[t].chat_id = c
                            /\ task[t].thread_id = th)
        => /\ BufferOf(chats', c, th) = BufferOf(chats, c, th)
           /\ (ChatThreadId(c, th) \in DOMAIN chats')
                <=> (ChatThreadId(c, th) \in DOMAIN chats)

\* C5, both parts: keys differ when their threads differ, and a step of an
\* add_message on one key changes no other key.
C5_Isolation == []C5_KeysDistinct /\ [][C5_FrameOtherKeys]_vars

\* C5 witness: one key has evicted while another key of the same chat holds
\* messages.
C5_Witness ==
    \E a, b \in DOMAIN chats :
        /\ a # b
        /\ a.chat_id = b.chat_id
        /\ Len(hist[a]) > MAX_MESSAGES
        /\ Len(chats[b]) > 0

\* C6: the messages a summarize request holds are, from the snapshot to the
\* end of the request, the last `count` of the buffer as it stood after a
\* whole number (snap_at) of completed add_message calls on its key; no
\* popped-but-not-pushed state and no later append shows in them.
C6_SnapshotAtomic ==
    \A t \in Tasks :
        task[t].pc \in AfterSnapshot =>
            /\ task[t].snap_at <= Len(hist[KeyOf(t)])
            /\ task[t].messages =
                 LastK(LastK(SubSeq(hist[KeyOf(t)], 1, task[t].snap_at), MAX_MESSAGES),
                       task[t].count)

\* C6 witness: a snapshot of a full buffer is held while a message handler
\* of the same key waits for the lock.
C6_Witness ==
    \E t, u \in Tasks :
        /\ task[t].pc \in AfterSnapshot
        /\ task[u].pc = "hm_lock"
        /\ KeyOf(u) = KeyOf(t)
        /\ Len(task[t].messages) = MAX_MESSAGES

\* C7: a summarize request that waits for the summarization endpoint always
\* comes to leave that wait (with a summary or the failure), also when the
\* endpoint never answers.
C7_SummarizationBounded ==
    \A t \in Tasks : (task[t].pc = "sum_http") ~> (task[t].pc # "sum_http")

\* What the claim calls a decimal integer n with 1 <= n <= MAX_MESSAGES: digits,
\* with an optional leading plus sign, of a value in that range.
DecimalBody(s) == IF Len(s) > 1 /\ Head(s) = "+" THEN Tail(s) ELSE s

RECURSIVE DecimalValue(_)
DecimalValue(d) ==
    IF d = <<>> THEN 0
    ELSE DigitValue(d[Len(d)]) + 10 * DecimalValue(SubSeq(d, 1, Len(d) - 1))

DecimalInRange(s) ==
    /\ s # <<>>
    /\ \A i \in 1..Len(DecimalBody(s)) : DecimalBody(s)[i] \in Digits
    /\ DecimalValue(DecimalBody(s)) \in 1..MAX_MESSAGES

\* C8: a summarize request whose argument, trimmed, is non-empty and no decimal
\* integer in 1..MAX_MESSAGES is only ever at the send of the rejection notice,
\* without the lock and without a snapshot; a request whose argument trims to
\* the empty string is accepted with count 100.
C8_CountValidation ==
    \A t \in Tasks :
        (task[t].kind = "summarize" /\ task[t].pc # "cancelled") =>
            LET trimmed == Trim(task[t].count_str) IN
            /\ (trimmed # <<>> /\ ~DecimalInRange(trimmed)) =>
                  /\ task[t].pc = "sum_reject_send"
                  /\ task[t].out = InvalidCountText
                  /\ lock # t
                  /\ task[t].messages = <<>>
            /\ trimmed = <<>> =>
                  /\ task[t].pc # "sum_reject_send"
                  /\ task[t].count = DEFAULT_COUNT

\* C8 witness: the count MAX_MESSAGES + 1 is being rejected while the store
\* holds messages.
C8_Witness ==
    \E t \in Tasks :
        /\ task[t].pc = "sum_reject_send"
        /\ \A i \in 1..Len(task[t].count_str) : task[t].count_str[i] \in Digits
        /\ DecimalValue(task[t].count_str) = MAX_MESSAGES + 1
        /\ chats # NewStore

\* C9: a summarize request whose snapshot is empty is at the send of "No
\* messages to summarize." and nowhere else, and a request that has entered
\* summarize_conversation holds a non-empty snapshot.
C9_EmptySnapshot ==
    \A t \in Tasks :
        /\ (task[t].pc \in AfterSnapshot /\ task[t].messages = <<>>) =>
              /\ task[t].pc = "sum_empty_send"
              /\ task[t].out = NoMessagesText
        /\ task[t].pc \in InSummarizeConversation \cup {"sum_edit_ok", "sum_edit_fail"}
              => task[t].messages # <<>>

\* C9 witness: a valid request on a key that was never written is answered
\* with the no-messages text.
C9_Witness ==
    \E t \in Tasks :
        /\ task[t].pc = "sum_empty_send"
        /\ task[t].out = NoMessagesText
        /\ task[t].count = DEFAULT_COUNT
        /\ hist[KeyOf(t)] = <<>>

\* C10: no step of a summarize request (its start, its snapshot, its sends,
\* its summarization outcomes, its end, its cancellation) changes the store,
\* and every change of the store is a step of add_message in a message handler.
C10_Step ==
    /\ \A t \in Tasks :
          (task'[t] # task[t]
             /\ (task[t].kind = "summarize" \/ task'[t].kind = "summarize"))
          => chats' = chats
    /\ chats' # chats =>
          \E t \in Tasks : /\ task[t].kind = "message"
                           /\ lock = t
                           /\ task[t].pc \in {"hm_entry", "hm_evict", "hm_push"}
                           /\ task'[t] # task[t]

\* C10: every step is read-only for the store unless it is a step of
\* add_message in a message handler.
C10_SummarizeReadOnly == [][C10_Step]_vars

\* C10 witness: one summarize request has failed in the summarizer and
\* another was cancelled, with messages in the store.
C10_Witness ==
    \E t, u \in Tasks :
        /\ task[t].pc = "sum_edit_fail"
        /\ task[u].pc = "cancelled"
        /\ task[u].kind = "summarize"
        /\ chats # NewStore

\* C11: a handle_message whose update has no sender ends in its first step:
\* the task is back in the pool with nothing to send, it never waited for or
\* took the lock, and the store (buffers, keys, push history) is as before.
C11_Step ==
    \A t \in Tasks :
        (/\ task[t].pc = "hm_start"
         /\ task[t].msg[1].from = None
         /\ task'[t] # task[t])
        => /\ task'[t] = IdleTask
           /\ lock' = lock
           /\ chats' = chats
           /\ hist' = hist

C11_SenderlessDropped == [][C11_Step]_vars

\* C11 witness: a text update without a sender is in handle_message while
\* the store holds messages and the lock is free.
C11_Witness ==
    \E t \in Tasks :
        /\ task[t].pc = "hm_start"
        /\ task[t].msg[1].type = "text"
        /\ task[t].msg[1].from = None
        /\ chats # NewStore
        /\ lock = NoTask

\* The tasks that hold a rendered transcript.
Rendered == {t \in Tasks : task[t].pc = "sum_http"}

\* The attribution label of a message: its display name, or "Unknown".
Label(message) == UnwrapOr(message.from_user, Unknown)

\* Is some message of the slice the target `reply`?
InSnapshot(messages, reply) ==
    reply # None /\ \E j \in 1..Len(messages) : messages[j].message_id = reply[1]

Target(messages, reply) ==
    messages[CHOOSE j \in 1..Len(messages) : messages[j].message_id = reply[1]]

\* The line of `message` as C12 states it when the target is in the slice.
C12_Line(messages, message) ==
    IF InSnapshot(messages, message.reply_to_message_id)
    THEN Label(message) \o ReplyingTo
         \o Label(Target(messages, message.reply_to_message_id))
         \o ReplyClose \o ReplaceNewlines(message.text) \o Newline
    ELSE RenderLine(messages, message)

RECURSIVE C12_Transcript(_, _)
C12_Transcript(messages, n) ==
    IF n = 0 THEN <<>>
    ELSE C12_Transcript(messages, n - 1) \o C12_Line(messages, messages[n])

C13_Line(messages, message) ==
    IF /\ message.reply_to_message_id # None
       /\ ~InSnapshot(messages, message.reply_to_message_id)
    THEN Label(message) \o ReplyingTo \o Someone
         \o ReplyClose \o ReplaceNewlines(message.text) \o Newline
    ELSE RenderLine(messages, message)

RECURSIVE C13_Transcript(_, _)
C13_Transcript(messages, n) ==
    IF n = 0 THEN <<>>
    ELSE C13_Transcript(messages, n - 1) \o C13_Line(messages, messages[n])

\* C13: a message whose reply target is not in the rendered snapshot gets the
\* line "{author} (replying to someone): {text}", whatever the store holds,
\* and the transcript has a line for every message of the snapshot.
C13_ReplyNotFound ==
    \A t \in Rendered :
        task[t].conversation_text
            = C13_Transcript(task[t].messages, Len(task[t].messages))

\* C13 witness: a rendered snapshot has a reply whose target is outside the
\* snapshot and still in the buffer of the same key.
C13_Witness ==
    \E t \in Rendered :
        \E i \in 1..Len(task[t].messages) :
            LET reply == task[t].messages[i].reply_to_message_id IN
            /\ reply # None
            /\ ~InSnapshot(task[t].messages, reply)
            /\ InSnapshot(BufferOf(chats, task[t].chat_id, task[t].thread_id), reply)

\* The number of newline characters of a string.
RECURSIVE NumNewlines(_)
NumNewlines(str) ==
    IF str = <<>> THEN 0
    ELSE (IF Head(str) = "\n" THEN 1 ELSE 0) + NumNewlines(Tail(str))

\* C14: the transcript has as many newline characters as the slice has
\* messages, and it ends with one when there is a message: one
\* newline-terminated line per message.
C14_OneLinePerMessage ==
    \A t \in Rendered :
        LET str == task[t].conversation_text
            n == Len(task[t].messages)
        IN /\ NumNewlines(str) = n
           /\ n > 0 => str[Len(str)] = "\n"

\* The tasks whose summarize_conversation has returned Err.
Failed == {t \in Tasks : task[t].pc = "sum_edit_fail"}

\* C15 as stated: after any failure of the summarization the request has sent
\* exactly one request to the endpoint and shows the fixed failure text.
C15_ExactlyOneCall ==
    \A t \in Failed : task[t].http_calls = 1 /\ task[t].out = FailedText

\* The step in which summarize_conversation returns Err: no request was sent
\* when the credential is missing (the Err comes before the client exists),
\* one otherwise; the text to show is the fixed one; the store is as before.
C15_Step ==
    \A t \in Tasks :
        (task[t].pc # "sum_edit_fail" /\ task'[t].pc = "sum_edit_fail")
        => /\ task[t].pc \in {"sum_notice_send", "sum_http", "sum_error_text", "sum_json"}
           /\ task'[t].http_calls = IF task[t].pc = "sum_notice_send" THEN 0 ELSE 1
           /\ task'[t].out = FailedText
           /\ chats' = chats
           /\ hist' = hist

\* C15, amended: a request never sends more than one HTTP request, a failed
\* summarization has sent none (missing credential) or one (every other
\* failure), shows the fixed failure text and leaves the store unchanged.
C15_FailureOnce ==
    /\ [](\A t \in Tasks : task[t].http_calls <= 1)
    /\ [](\A t \in Failed : task[t].out = FailedText)
    /\ [][C15_Step]_vars

\* C15 witness: a summarization failed after its one request, with messages
\* in the store.
C15_Witness ==
    \E t \in Failed :
        /\ task[t].http_calls = 1
        /\ task[t].messages # <<>>
        /\ chats # NewStore

\* The number of (key, position) pairs of a store: all its messages.
C16_Total(chs) ==
    Cardinality(UNION {{<<k, i>> : i \in 1..Len(chs[k])} : k \in DOMAIN chs})

\* The step in which a /memory request reads its three numbers.
C16_Step ==
    \A t \in Tasks :
        (task[t].pc = "mem_lock" /\ task'[t].pc = "mem_send")
        => LET stats == task'[t].stats
               key == KeyOf(t)
           IN /\ stats.total_chats = Cardinality(DOMAIN chats)
              /\ stats.total_messages = C16_Total(chats)
              /\ stats.current_chat_messages
                    = IF key \in DOMAIN chats THEN Len(chats[key]) ELSE 0
              /\ stats.current_chat_messages <= stats.total_messages
              /\ stats.total_messages <= MAX_MESSAGES * stats.total_chats
              /\ chats' = chats
              /\ hist' = hist

\* C16: the three numbers of a /memory report are those of the one store
\* state in which they are read (keys, sum of the lengths, length of the
\* request's key or 0), so current <= total <= MAX_MESSAGES * buffers, and
\* the request changes no buffer and creates no key.
C16_StatsConsistent ==
    /\ [][C16_Step]_vars
    /\ [][\A t \in Tasks : (task[t].kind = "memory" /\ task'[t] # task[t])
                              => chats' = chats]_vars

\* C16 witness: a report on a key the store does not have, read while another
\* buffer holds more than one message.
C16_Witness ==
    \E t \in Tasks :
        /\ task[t].pc = "mem_send"
        /\ KeyOf(t) \notin DOMAIN chats
        /\ task[t].stats.current_chat_messages = 0
        /\ task[t].stats.total_messages > task[t].stats.total_chats

\* The await points of send_message(..) and edit_message_text(..).
SendPoints ==
    {"cmd_send", "sum_reject_send", "sum_empty_send", "sum_notice_send",
     "sum_edit_ok", "sum_edit_fail", "mem_send"}

\* C17: no task that is suspended in a send_message or edit_message_text
\* call owns the store lock.
C17_NoLockAcrossSend ==
    \A t \in Tasks : task[t].pc \in SendPoints => lock # t

\* seg is a run of consecutive elements of s, in the order of s.
Contiguous(seg, s) ==
    \E o \in 0..(Len(s) - Len(seg)) : \A i \in 1..Len(seg) : seg[i] = s[o + i]

\* The positions of an add_message that owns the lock.
InAdd == {"hm_entry", "hm_evict", "hm_push"}

\* In every state: no message is twice in the order of a key, and every
\* buffer and every snapshot is a run of that order.
C18_Ordered ==
    /\ \A k \in Keys :
          \A i, j \in 1..Len(hist[k]) :
             hist[k][i].message_id = hist[k][j].message_id => i = j
    /\ \A k \in DOMAIN chats : Contiguous(chats[k], hist[k])
    /\ \A t \in Tasks :
          task[t].pc \in AfterSnapshot => Contiguous(task[t].messages, hist[KeyOf(t)])

\* In every step: the order of a key only grows at its end; between the lock
\* acquisition and the push of an add_message nothing else touches the store;
\* and the push puts the task's message after what the task found when it
\* took the lock, less the oldest message if that buffer was full.
C18_Step ==
    /\ \A k \in Keys :
          \/ hist'[k] = hist[k]
          \/ \E t \in Tasks :
                /\ task[t].pc = "hm_push"
                /\ task'[t].pc = "idle"
                /\ KeyOf(t) = k
                /\ hist'[k] = Append(hist[k], task[t].saved_message[1])
    /\ \A t \in Tasks :
          (task[t].pc \in InAdd /\ task'[t] = task[t])
             => chats' = chats /\ hist' = hist
    /\ \A t \in Tasks :
          (task[t].pc = "hm_push" /\ task'[t].pc = "idle")
             => chats'[KeyOf(t)] = Append(LastK(task[t].pre, MAX_MESSAGES - 1),
                                          task[t].saved_message[1])

\* C18: the add_message calls on a key take effect one after the other in the
\* order in which they took the lock; every buffer and every snapshot shows
\* retained messages in that order; no append is lost and none is applied
\* twice.
C18_AppendOrder == []C18_Ordered /\ [][C18_Step]_vars

\* C18 witness: two handlers have a message for the same key; one is between
\* its pop and its push on a full buffer, the other waits for the lock.
C18_Witness ==
    \E t, u \in Tasks :
        /\ task[t].pc = "hm_push"
        /\ task[u].pc = "hm_lock"
        /\ KeyOf(t) = KeyOf(u)
        /\ Len(task[t].pre) = MAX_MESSAGES

\* The messages a state holds: in the buffers, in the snapshots, and in the
\* hands of an add_message.
C19_Held ==
    UNION {Range(chats[k]) : k \in DOMAIN chats}
    \cup UNION {Range(task[t].messages) : t \in Tasks}
    \cup UNION {Range(task[t].saved_message) : t \in Tasks}

\* A line that uses no placeholder for the author or for a found target.
C19_Line(messages, message) ==
    LET reply == message.reply_to_message_id IN
    IF reply = None
    THEN message.from_user[1] \o Colon \o ReplaceNewlines(message.text) \o Newline
    ELSE message.from_user[1] \o ReplyingTo
         \o (IF InSnapshot(messages, reply)
             THEN Target(messages, reply).from_user[1] ELSE Someone)
         \o ReplyClose \o ReplaceNewlines(message.text) \o Newline

RECURSIVE C19_Transcript(_, _)
C19_Transcript(messages, n) ==
    IF n = 0 THEN <<>>
    ELSE C19_Transcript(messages, n - 1) \o C19_Line(messages, messages[n])

\* C19: every message of a buffer or of a snapshot has a display name, so in
\* every transcript rendered from the store each author is named by its
\* display name, never by "Unknown", and each reply target found in the
\* snapshot is named by its display name, never by "someone".
C19_AlwaysNamed ==
    /\ \A message \in C19_Held : message.from_user # None
    /\ \A t \in Rendered :
          task[t].conversation_text
             = C19_Transcript(task[t].messages, Len(task[t].messages))

\* C19 witness: a transcript rendered from the store has a reply whose target
\* is in the snapshot.
C19_Witness ==
    \E t \in Rendered :
        /\ \E i \in 1..Len(task[t].messages) :
              InSnapshot(task[t].messages, task[t].messages[i].reply_to_message_id)
        /\ task[t].messages = BufferOf(chats, task[t].chat_id, task[t].thread_id)

\* No add_message is between its lock acquisition and its push.
C20_NoAddRunning == \A t \in Tasks : task[t].pc \notin InAdd

\* The keys that have received a stored message.
C20_AppendedKeys == {k \in Keys : hist[k] # <<>>}

\* Outside a running add_message the keys of the map are the keys that have
\* received a message, and every buffer has between 1 and MAX_MESSAGES.
C20_KeysAreAppended ==
    C20_NoAddRunning =>
        /\ DOMAIN chats = C20_AppendedKeys
        /\ \A k \in DOMAIN chats : Len(chats[k]) \in 1..MAX_MESSAGES

\* No step removes a key; only the entry step of an add_message creates one;
\* and a /memory report counts the keys that have received a message.
C20_Step ==
    /\ DOMAIN chats \subseteq DOMAIN chats'
    /\ DOMAIN chats' # DOMAIN chats
          => \E t \in Tasks :
                /\ task[t].pc = "hm_entry"
                /\ task'[t].pc = "hm_evict"
                /\ DOMAIN chats' = DOMAIN chats \cup {KeyOf(t)}
    /\ \A t \in Tasks :
          (task[t].pc = "mem_lock" /\ task'[t].pc = "mem_send")
             => task'[t].stats.total_chats = Cardinality(C20_AppendedKeys)

\* C20: a key is in the map exactly when a message was appended to it, its
\* buffer then has between 1 and MAX_MESSAGES messages, reads create no key,
\* nothing removes one, and the buffer count of a /memory report is the number
\* of keys that have received a stored message.
C20_KeyLifecycle == []C20_KeysAreAppended /\ [][C20_Step]_vars

\* C20 witness: a summarize request has read a key that never received a
\* message while another key has a buffer; the read left no key behind.
C20_Witness ==
    \E t \in Tasks :
        /\ task[t].pc = "sum_empty_send"
        /\ hist[KeyOf(t)] = <<>>
        /\ KeyOf(t) \notin DOMAIN chats
        /\ DOMAIN chats # {}
        /\ C20_NoAddRunning

\* An ordinary text message: it has a text that is no command, and a sender.
C21_Ordinary(msg) == msg.type = "text" /\ msg.from # None

\* The ids of the messages in the order of key k.
C21_Ids(h, k) == {h[k][i].message_id : i \in 1..Len(h[k])}

\* The handle_message tasks that have an ordinary text message.
C21_Storing ==
    {t \in Tasks : /\ task[t].kind = "message"
                   /\ task[t].msg # None
                   /\ C21_Ordinary(task[t].msg[1])}

\* In every state: a message is in the order of one key only, at one place,
\* and a handler that owns the lock for an add_message has an ordinary text
\* message.
C21_Once ==
    /\ \A k1, k2 \in Keys :
          \A i \in 1..Len(hist[k1]), j \in 1..Len(hist[k2]) :
             hist[k1][i].message_id = hist[k2][j].message_id => (k1 = k2 /\ i = j)
    /\ \A t \in Tasks : task[t].pc \in InAdd => t \in C21_Storing

\* In every step: the store changes only in the add_message of a handler of
\* an ordinary text message; an append is of that message, built from the
\* update, new to the store, at the end of the order of the update's own key,
\* and of no other key; and such a handler returns only by that append.
C21_Step ==
    /\ (chats' # chats \/ hist' # hist)
          => \E t \in C21_Storing : task[t].pc \in InAdd /\ task'[t] # task[t]
    /\ \A t \in Tasks :
          (task[t].pc # "idle" /\ task'[t].pc = "idle" /\ t \in C21_Storing)
             => LET msg == task[t].msg[1]
                    key == ChatThreadId(msg.chat_id, msg.thread_id)
                    saved == SavedMessage(msg.id, msg.from, msg.reply_to, msg.text)
                IN /\ task[t].pc = "hm_push"
                   /\ \A k \in Keys : msg.id \notin C21_Ids(hist, k)
                   /\ hist'[key] = Append(hist[key], saved)
                   /\ chats'[key][Len(chats'[key])] = saved
                   /\ \A k \in Keys \ {key} : hist'[k] = hist[k]
                   /\ \A k \in DOMAIN chats \ {key} : chats'[k] = chats[k]
    /\ \A t \in Tasks :
          (hist' # hist /\ task'[t] # task[t]) => task'[t].pc = "idle"

\* C21: only ordinary text messages are stored.  No step of a command, and no
\* step for an update without text or without sender, changes a buffer; the
\* handler of a text message that is no command and has a sender appends it
\* once, to the buffer of its own (chat, thread) key, before it returns.
C21_OnlyTextStored == []C21_Once /\ [][C21_Step]_vars

\* C21 witness: a handler is about to push an ordinary text message while the
\* other handler runs a command on the same key, and the key has a message.
C21_Witness ==
    \E t \in C21_Storing, u \in Tasks :
        /\ task[t].pc = "hm_push"
        /\ task[u].kind \in {"summarize", "memory", "command"}
        /\ KeyOf(t) = KeyOf(u)
        /\ hist[KeyOf(t)] # <<>>

====
